---- MODULE Spec2Model ----
(***************************************************************************)
(* js_env.py: a watcher that classifies file paths with include/exclude    *)
(* rules, rebuilds on filesystem events and exposes build/test/run/start/  *)
(* serve over HTTP.  Strings are sequences of one-character strings.       *)
(***************************************************************************)
EXTENDS Integers, Sequences, FiniteSets, TLC

\* ------------------------------------------------------------------ bounds
MaxPathLen == 3
MaxRules == 3
MaxEdits == 1
MaxRequests == 2
MaxEvents == 2
MaxRawLen == 8
MaxTreeEntries == 3

\* --------------------------------------------------------------- alphabets
Alphabet == {"/", "a", "."}

RECURSIVE StrsOfLen(_, _)
StrsOfLen(chars, n) ==
    IF n = 0 THEN {<<>>}
    ELSE {Append(s, c) : s \in StrsOfLen(chars, n - 1), c \in chars}

StrsUpTo(chars, n) == UNION {StrsOfLen(chars, k) : k \in 0..n}

\* ------------------------------------------------------ string primitives
\* str.endswith(suffix)
EndsWith(s, suffix) ==
    /\ Len(suffix) <= Len(s)
    /\ SubSeq(s, Len(s) - Len(suffix) + 1, Len(s)) = suffix

\* str.startswith(prefix)
StartsWith(s, prefix) ==
    /\ Len(prefix) <= Len(s)
    /\ SubSeq(s, 1, Len(prefix)) = prefix

\* sub in s
Contains(s, sub) ==
    \E i \in 1..(Len(s) - Len(sub) + 1) : SubSeq(s, i, i + Len(sub) - 1) = sub

\* one regular-expression atom against one character: "." is any character
\* (the alphabet has no newline), every other atom is a literal
ReAtom(atom, ch) == atom = "." \/ atom = ch

\* re.findall(regex, s) is non-empty: the pattern matches at some position
re_findall(regex, s) ==
    \E i \in 1..(Len(s) - Len(regex) + 1) :
        \A k \in 1..Len(regex) : ReAtom(regex[k], s[i + k - 1])

\* ------------------------------------------------------------ filter rules
\* the five rule lists of Configuration
RuleKinds == {"included", "excluded_ext", "folder", "file", "regex"}

\* does one rule entry hit the path (the `if` inside each loop of is_watched)
Hit(kind, rule, filepath) ==
    CASE kind = "included"     -> EndsWith(filepath, rule)
      [] kind = "excluded_ext" -> EndsWith(filepath, rule)
      [] kind = "folder"       -> Contains(filepath, rule)
      [] kind = "file"         -> Contains(filepath, rule)
      [] kind = "regex"        -> re_findall(rule, filepath)

\* Scan as it would be if each entry assigned the decision instead of only
\* overriding it on a hit
RECURSIVE ScanAssigning(_, _, _, _, _)
ScanAssigning(kind, list, filepath, watched, value) ==
    IF list = <<>> THEN watched
    ELSE ScanAssigning(kind, Tail(list), filepath,
                       IF Hit(kind, Head(list), filepath)
                       THEN value ELSE ~value,
                       value)

\* one `for` loop of is_watched: every entry is visited, a hit overwrites
\* the running decision with `value`
RECURSIVE Scan(_, _, _, _, _)
Scan(kind, list, filepath, watched, value) ==
    IF list = <<>> THEN watched
    ELSE Scan(kind, Tail(list), filepath,
              IF Hit(kind, Head(list), filepath) THEN value ELSE watched,
              value)

\* the five passes of is_watched starting from decision w0, the inclusion
\* pass run first or last
Passes(r, filepath, w0, includeLast) ==
    LET w1 == IF includeLast THEN w0
              ELSE Scan("included", r.included_extensions, filepath, w0, TRUE)
        w2 == Scan("excluded_ext", r.excluded_extensions, filepath, w1, FALSE)
        w3 == Scan("folder", r.excluded_folders, filepath, w2, FALSE)
        w4 == Scan("file", r.excluded_files, filepath, w3, FALSE)
        w5 == Scan("regex", r.excluded_regex, filepath, w4, FALSE)
    IN  IF includeLast
        THEN Scan("included", r.included_extensions, filepath, w5, TRUE)
        ELSE w5

\* is_watched with the inclusion pass moved behind the exclusion passes
is_watched_IncludeLast(r, filepath) == Passes(r, filepath, FALSE, TRUE)

\* is_watched starting from "watched"
is_watched_DefaultTrue(r, filepath) == Passes(r, filepath, TRUE, FALSE)

\* Configuration.is_watched
is_watched(r, filepath) ==
    LET w0 == FALSE
        w1 == Scan("included", r.included_extensions, filepath, w0, TRUE)
        w2 == Scan("excluded_ext", r.excluded_extensions, filepath, w1, FALSE)
        w3 == Scan("folder", r.excluded_folders, filepath, w2, FALSE)
        w4 == Scan("file", r.excluded_files, filepath, w3, FALSE)
        w5 == Scan("regex", r.excluded_regex, filepath, w4, FALSE)
    IN  w5

\* ------------------------------------------------------- splitting strings
\* position of the first occurrence of character c in s, 0 when absent
RECURSIVE IndexOf(_, _, _)
IndexOf(s, c, i) ==
    IF i > Len(s) THEN 0
    ELSE IF s[i] = c THEN i
    ELSE IndexOf(s, c, i + 1)

\* str.split(sep) for a one-character separator: "".split(",") is [""]
RECURSIVE Split(_, _)
Split(s, sep) ==
    LET i == IndexOf(s, sep, 1)
    IN  IF i = 0 THEN <<s>>
        ELSE <<SubSeq(s, 1, i - 1)>> \o Split(SubSeq(s, i + 1, Len(s)), sep)

\* shlex.split on a string without quotes or escapes: the blank-separated
\* words, empty words dropped
shlex_split(s) == SelectSeq(Split(s, " "), LAMBDA w : w # <<>>)

\* set(list)
SeqToSet(list) == {list[i] : i \in DOMAIN list}

\* list(a_set): the elements once each, in an order the runtime picks
ListsOf(S) ==
    {l \in [1..Cardinality(S) -> S] : SeqToSet(l) = S}

\* ------------------------------------------------------------ configuration
Actions == {"build", "test", "run", "start", "serve"}

\* status string each dispatch function returns
Label(a) ==
    CASE a = "build" -> "Building"
      [] a = "test"  -> "Testing"
      [] a = "start" -> "Starting"
      [] a = "run"   -> "Running"
      [] a = "serve" -> "Serving"

\* Configuration._commands, the keys __init__ asserts
RequiredCommands == {"build", "serve", "start", "test"}

\* Configuration._excluded_folders as __init__ leaves it
DefaultExcludedFolders ==
    << <<"n", "o", "d", "e", "_", "m", "o", "d", "u", "l", "e", "s">> >>

\* command strings a config file may carry (ConfigParser strips values)
CmdValues == {<<>>, <<"n">>, <<"n", " ", "t">>}
FullCmd == <<"n", " ", "t">>

\* the fully populated .js_env_config
FullConf ==
    [sections |-> {"commands", "server"},
     server   |-> {"port"},
     commands |-> [a \in Actions |-> FullCmd]]

AllConfs ==
    {[sections |-> ss, server |-> sk, commands |-> cm] :
        ss \in SUBSET {"commands", "server"},
        sk \in SUBSET {"port"},
        cm \in UNION {[K -> CmdValues] : K \in SUBSET Actions}}

\* number of places where a config file departs from the fully populated one
Edits(c) ==
    Cardinality({"commands", "server"} \ c.sections)
    + (IF "server" \in c.sections THEN Cardinality({"port"} \ c.server) ELSE 0)
    + (IF "commands" \in c.sections
       THEN Cardinality({a \in Actions :
                a \notin DOMAIN c.commands \/ c.commands[a] # FullCmd})
       ELSE 0)

\* files ConfigParser can hand over: a missing section has no keys
ConfFiles ==
    {c \in AllConfs :
        /\ Edits(c) <= MaxEdits
        /\ ("commands" \notin c.sections => DOMAIN c.commands = {})
        /\ ("server" \notin c.sections => c.server = {})}

\* Configuration.__init__ : the three asserts
ConfigAssertsHold(c) ==
    /\ "commands" \in c.sections
    /\ "server" \in c.sections
    /\ \A k \in RequiredCommands : k \in DOMAIN c.commands

\* the *_command properties: self._conf["commands"][a]
HasCommand(c, a) == "commands" \in c.sections /\ a \in DOMAIN c.commands
command(c, a) == c.commands[a]

\* server_port property: self._conf["server"]["port"]
HasPort(c) == "server" \in c.sections /\ "port" \in c.server

\* ------------------------------------------------------------ command line
\* option values are the raw strings argparse hands over
InclusionArgs == {<<>>, <<".", "a", ",", "a">>}
ExclusionArgs == {<<>>, <<"a", "/", ",", ".", ".", ",", "/", ".">>}
FilterArgs == {<<>>, <<"/", ".">>}
FileArgs == {<<>>, <<"a", "a">>}

BaseArgs ==
    [watchdog |-> TRUE, live_server |-> FALSE,
     exclusions |-> <<>>, exclude_filters |-> <<>>,
     excluded_files |-> <<>>, inclusions |-> <<".", "a", ",", "a">>]

\* number of options at which a command line departs from BaseArgs
Options(a) == Cardinality({f \in DOMAIN BaseArgs : a[f] # BaseArgs[f]})

ArgSets ==
    {a \in [watchdog : BOOLEAN, live_server : BOOLEAN,
            exclusions : ExclusionArgs, exclude_filters : FilterArgs,
            excluded_files : FileArgs, inclusions : InclusionArgs] :
        Options(a) <= MaxEdits}

\* ------------------------------------------------------------------- state
VARIABLES
    conf,     \* the parsed .js_env_config (Configuration._conf)
    args,     \* the command line as argparse returns it
    cfg,      \* the Configuration object: rule lists, watchdog, live_server
    pc,       \* position of the main thread
    live,     \* the live-server helper process has been started
    root,     \* ChangeHandler.root made absolute
    files,    \* absolute paths of the regular files on disk
    evq,      \* events the observer has queued for the handler
    obs,      \* the observer's dispatch thread
    handled,  \* what the handler did with the last event it took
    reqs,     \* the HTTP request threads
    error,    \* the exception that ended the main thread, if any
    query,    \* argument of a direct is_watched call
    answer,   \* its result
    procs,    \* the external processes in flight
    dirs,     \* absolute paths of the directories on disk
    elements  \* what get_watched returned at startup

vars == <<conf, args, cfg, pc, live, root, files, evq, obs, handled, reqs,
          error, query, answer, procs, dirs, elements>>

startupVars == <<conf, args, cfg, pc, live, error>>
queryVars == <<query, answer>>
treeVars == <<dirs, elements>>

Dot == <<".">>
Sep == <<"/">>

\* Configuration.__init__ : the rule lists after construction
InitialCfg ==
    [included_extensions |-> <<>>,
     excluded_extensions |-> <<>>,
     excluded_folders |-> DefaultExcludedFolders,
     excluded_files |-> <<>>,
     excluded_regex |-> <<>>,
     watchdog |-> "unset",
     live_server |-> "unset"]

Flag(b) == IF b THEN "on" ELSE "off"

\* parse_options: the Configuration after the option handling, `folders`
\* being the order list(set(...)) happened to produce
ParsedCfg(c, a, folders) ==
    LET inclusions == Split(a.inclusions, ",")
        exclusions == Split(a.exclusions, ",")
        c1 == [c EXCEPT !.watchdog = Flag(a.watchdog),
                        !.live_server = Flag(a.live_server)]
        c2 == IF a.exclude_filters # <<>>
              THEN [c1 EXCEPT !.excluded_regex = Split(a.exclude_filters, ",")]
              ELSE c1
        c3 == IF a.inclusions # <<>>
              THEN [c2 EXCEPT
                      !.included_extensions =
                          SelectSeq(inclusions, LAMBDA v : StartsWith(v, Dot)),
                      !.excluded_files =
                          IF a.excluded_files # <<>>
                          THEN Split(a.excluded_files, ",")
                          ELSE c2.excluded_files]
              ELSE c2
        c4 == IF a.exclusions # <<>>
              THEN [c3 EXCEPT
                      !.excluded_extensions =
                          SelectSeq(exclusions, LAMBDA v : StartsWith(v, Dot)),
                      !.excluded_folders = folders]
              ELSE c3
    IN  c4

\* the orders list(set(exclusions) - set(excluded_extensions)) can produce
FolderOrders(a) ==
    LET exclusions == Split(a.exclusions, ",")
        exts == SelectSeq(exclusions, LAMBDA v : StartsWith(v, Dot))
    IN  ListsOf(SeqToSet(exclusions) \ SeqToSet(exts))

\* ------------------------------------------------------------- enumeration
\* a path below the directory r, relative to it
RelTo(p, r) == SubSeq(p, Len(r) + 2, Len(p))

\* os.listdir(".") with r the working directory: the names directly in r
listdir(r, fs, ds) ==
    {RelTo(p, r) : p \in {q \in fs \cup ds :
                            /\ StartsWith(q, r \o Sep)
                            /\ ~Contains(RelTo(q, r), Sep)}}

\* os.path.isdir(x)
isdir(ds, p) == p \in ds

\* glob's test for names a wildcard does not match
ishidden(name) == name # <<>> /\ Head(name) = "."

\* glob(x + '/**', recursive=True) in the working directory r: x with a
\* trailing separator, then every file and directory below x that is
\* reached without passing a hidden name
glob_rec(r, fs, ds, x) ==
    {x \o Sep} \cup
    {RelTo(p, r) : p \in {q \in fs \cup ds :
        /\ StartsWith(q, r \o Sep \o x \o Sep)
        /\ LET below == Split(RelTo(RelTo(q, r), x), "/")
           IN  \A i \in DOMAIN below : ~ishidden(below[i])}}

\* Configuration.get_watched, the list taken as a set (it has no duplicates)
get_watched(c, r, fs, ds) ==
    LET top == listdir(r, fs, ds)
        top_files == {x \in top : (r \o Sep \o x) \in fs}
        all_folders == {x \in top : isdir(ds, r \o Sep \o x)}
        all_files == top_files \cup
            UNION {glob_rec(r, fs, ds, x) :
                      x \in {y \in all_folders :
                                y \notin SeqToSet(c.excluded_folders)}}
    IN  {f \in all_files : is_watched(c, f)}

\* ---------------------------------------------------------------- startup
\* module level, line 256: config = Configuration()
Construct ==
    /\ pc = "import"
    /\ IF ConfigAssertsHold(conf)
       THEN pc' = "which" /\ error' = error
       ELSE pc' = "crashed" /\ error' = "AssertionError"
    /\ UNCHANGED <<conf, args, cfg, live, root, files, evq, obs, handled,
                   reqs, queryVars, treeVars, procs>>

\* main: which("npm") found the executable
WhichFound ==
    /\ pc = "which"
    /\ pc' = "parse"
    /\ UNCHANGED <<conf, args, cfg, live, error, root, files, evq, obs,
                   handled, reqs, queryVars, treeVars, procs>>

\* main: which("npm") returned None, exit()
WhichMissing ==
    /\ pc = "which"
    /\ pc' = "exited"
    /\ UNCHANGED <<conf, args, cfg, live, error, root, files, evq, obs,
                   handled, reqs, queryVars, treeVars, procs>>

\* parse_options
parse_options ==
    /\ pc = "parse"
    /\ \E folders \in FolderOrders(args) :
           cfg' = ParsedCfg(cfg, args, folders)
    /\ pc' = "live"
    /\ UNCHANGED <<conf, args, live, error, root, files, evq, obs, handled,
                   reqs, queryVars, treeVars, procs>>

\* main: if config.live_server: subprocess.Popen(['live-server', ...])
StartLiveServer ==
    /\ pc = "live"
    /\ live' = (cfg.live_server = "on")
    /\ pc' = "watch"
    /\ UNCHANGED <<conf, args, cfg, error, root, files, evq, obs, handled,
                   reqs, queryVars, treeVars, procs>>

\* main: the live-server executable is not installed, Popen raises
StartLiveServerMissing ==
    /\ pc = "live"
    /\ cfg.live_server = "on"
    /\ pc' = "crashed"
    /\ error' = "FileNotFoundError"
    /\ UNCHANGED <<conf, args, cfg, live, root, files, evq, obs, handled,
                   reqs, queryVars, treeVars, procs>>

\* StartObserver as it would be if main started the observer before calling
\* parse_options
StartObserverBeforeParse ==
    /\ pc \in {"parse", "watch"}
    /\ pc = "parse" => obs.state = "off"
    /\ obs' = IF pc = "parse" \/ cfg.watchdog = "on"
              THEN [obs EXCEPT !.state = "idle"] ELSE obs
    /\ pc' = IF pc = "watch" THEN "port" ELSE pc
    /\ UNCHANGED <<conf, args, cfg, live, error, root, files, evq, handled,
                   reqs, queryVars, treeVars, procs>>

\* main: if config.watchdog: watched_elements = config.get_watched();
\* observer.schedule(...); observer.start()
StartObserver ==
    /\ pc = "watch"
    /\ obs' = IF cfg.watchdog = "on" THEN [obs EXCEPT !.state = "idle"] ELSE obs
    /\ elements' = IF cfg.watchdog = "on"
                   THEN get_watched(cfg, root, files, dirs)
                   ELSE elements
    /\ pc' = "port"
    /\ UNCHANGED <<conf, args, cfg, live, error, root, files, evq, handled,
                   reqs, queryVars, dirs, procs>>

\* main: port = config.server_port, then the routes and app.run
StartServer ==
    /\ pc = "port"
    /\ IF HasPort(conf)
       THEN pc' = "serving" /\ error' = error
       ELSE pc' = "crashed" /\ error' = "KeyError"
    /\ UNCHANGED <<conf, args, cfg, live, root, files, evq, obs, handled,
                   reqs, queryVars, treeVars, procs>>

\* ---------------------------------------------------------------- dispatch
\* the key whose value guards the subprocess call of each dispatch function
GuardKey(a) == IF a = "serve" THEN "run" ELSE a

\* subprocess.run(a_list, shell=True) on POSIX: /bin/sh -c a_list[0], the
\* remaining items become the shell's own positional parameters
sh_c(list) == IF list = <<>> THEN <<>> ELSE Head(list)

\* the command line the shell executes for an action
ShellCommand(c, a) ==
    IF a \in {"build", "serve"}
    THEN command(c, a)
    ELSE sh_c(shlex_split(command(c, a)))

NoExit == -1
ExitCodes == {0, 1}

\* Trigger as it would be if the command were started without waiting
\* (Popen in place of run): the label is returned at once
TriggerDetached(c, a) ==
    IF ~HasCommand(c, GuardKey(a))
    THEN [state |-> "done", action |-> a, command |-> <<>>, exit |-> NoExit,
          body |-> "Internal Server Error", raised |-> "KeyError",
          spawned |-> FALSE]
    ELSE [state |-> "done", action |-> a,
          command |-> IF command(c, GuardKey(a)) = <<>> THEN <<>>
                      ELSE ShellCommand(c, a),
          exit |-> NoExit, body |-> Label(a), raised |-> "none",
          spawned |-> command(c, GuardKey(a)) # <<>>]

\* outcome of calling a dispatch function up to the point where it either
\* returns or blocks in subprocess.run; `spawned` tells whether a shell
\* was started
Trigger(c, a) ==
    IF ~HasCommand(c, GuardKey(a))
    THEN [state |-> "done", action |-> a, command |-> <<>>, exit |-> NoExit,
          body |-> "Internal Server Error", raised |-> "KeyError",
          spawned |-> FALSE]
    ELSE IF command(c, GuardKey(a)) = <<>>
    THEN [state |-> "done", action |-> a, command |-> <<>>, exit |-> NoExit,
          body |-> Label(a), raised |-> "none", spawned |-> FALSE]
    ELSE [state |-> "running", action |-> a, command |-> ShellCommand(c, a),
          exit |-> NoExit, body |-> "", raised |-> "none", spawned |-> TRUE]

\* Returned as it would be if a non-zero exit were reported to the caller
ReturnedReportingFailure(t, code) ==
    [t EXCEPT !.state = "done", !.exit = code,
              !.body = IF code = 0 THEN Label(t.action) ELSE "Failed"]

\* the dispatch function returns after the process has exited
Returned(t, code) ==
    [t EXCEPT !.state = "done", !.exit = code, !.body = Label(t.action)]

\* the process a call started: owner 0 is the observer's thread, owner i
\* the i-th request thread
Proc(owner, t) == [owner |-> owner, action |-> t.action, command |-> t.command]

Spawn(owner, t) == IF t.spawned THEN {Proc(owner, t)} ELSE {}

FreeThread ==
    [state |-> "free", action |-> "none", command |-> <<>>, exit |-> NoExit,
     body |-> "", raised |-> "none", spawned |-> FALSE,
     path |-> "", method |-> ""]

\* the routes main registers: URL rule -> dispatch function
RoutePaths == {"/build", "/test", "/run", "/start", "/serve"}

Endpoint(path) ==
    CASE path = "/build" -> "build"
      [] path = "/test"  -> "test"
      [] path = "/run"   -> "run"
      [] path = "/start" -> "start"
      [] path = "/serve" -> "serve"

\* methods=["GET", "POST"] of every route
RouteMethods == {"GET", "POST"}

\* what a request thread does with one request: the view function is
\* called for an allowed method, anything else is answered 405
Serve(c, path, method) ==
    LET t == IF method \in RouteMethods
             THEN Trigger(c, Endpoint(path))
             ELSE [state |-> "done", action |-> "none", command |-> <<>>,
                   exit |-> NoExit, body |-> "Method Not Allowed",
                   raised |-> "none", spawned |-> FALSE]
    IN  [state |-> t.state, action |-> t.action, command |-> t.command,
         exit |-> t.exit, body |-> t.body, raised |-> t.raised,
         spawned |-> t.spawned, path |-> path, method |-> method]

\* Request as it would be if serving a request generated the configuration
\* again (the reparseable configuration of the TODO above line 256)
RequestReparsing(i, path, method) ==
    /\ pc = "serving"
    /\ reqs[i].state = "free"
    /\ \A j \in 1..(i - 1) : reqs[j].state # "free"
    /\ reqs' = [reqs EXCEPT ![i] = Serve(conf, path, method)]
    /\ procs' = procs \cup Spawn(i, reqs'[i])
    /\ cfg' = InitialCfg
    /\ UNCHANGED <<conf, args, pc, live, error, root, files, evq, obs,
                   handled, queryVars, treeVars>>

\* Request as it would be if an action already in flight were not started
\* again: the second trigger is refused
RequestSingleFlight(i, path, method) ==
    /\ pc = "serving"
    /\ reqs[i].state = "free"
    /\ \A j \in 1..(i - 1) : reqs[j].state # "free"
    /\ reqs' = [reqs EXCEPT ![i] =
                   IF \E p \in procs : p.action = Endpoint(path)
                   THEN [Serve(conf, path, method) EXCEPT
                            !.state = "done", !.body = "Busy",
                            !.command = <<>>, !.spawned = FALSE]
                   ELSE Serve(conf, path, method)]
    /\ procs' = procs \cup Spawn(i, reqs'[i])
    /\ UNCHANGED <<startupVars, root, files, evq, obs, handled, queryVars,
                   treeVars>>

\* a Flask route (__build, __test, __run, __start, __serve) takes a request;
\* request threads are interchangeable, so they are taken in index order
Request(i, path, method) ==
    /\ pc = "serving"
    /\ reqs[i].state = "free"
    /\ \A j \in 1..(i - 1) : reqs[j].state # "free"
    /\ reqs' = [reqs EXCEPT ![i] = Serve(conf, path, method)]
    /\ procs' = procs \cup Spawn(i, reqs'[i])
    /\ UNCHANGED <<startupVars, root, files, evq, obs, handled, queryVars,
                   treeVars>>

\* RequestProcExit as it would be if a failing command took the other
\* requests in flight down with it
RequestProcExitAborting(i, code) ==
    /\ \E p \in procs : p.owner = i
    /\ procs' = IF code = 0 THEN {p \in procs : p.owner # i}
                ELSE {p \in procs : p.owner = 0}
    /\ reqs' = [j \in 1..MaxRequests |->
                   IF reqs[j].state # "running" THEN reqs[j]
                   ELSE IF j = i THEN Returned(reqs[j], code)
                   ELSE IF code = 0 THEN reqs[j]
                   ELSE [reqs[j] EXCEPT !.state = "done", !.exit = code,
                                        !.body = "Internal Server Error"]]
    /\ UNCHANGED <<startupVars, root, files, evq, obs, handled, queryVars,
                   treeVars>>

\* the external process of a request exits; a route blocked in
\* subprocess.run returns
RequestProcExit(i, code) ==
    /\ \E p \in procs : p.owner = i
    /\ procs' = {p \in procs : p.owner # i}
    /\ reqs' = IF reqs[i].state = "running"
               THEN [reqs EXCEPT ![i] = Returned(reqs[i], code)]
               ELSE reqs
    /\ UNCHANGED <<startupVars, root, files, evq, obs, handled, queryVars,
                   treeVars>>

\* ----------------------------------------------------------- event handler
\* str.replace(old, new): every non-overlapping occurrence, left to right
RECURSIVE Replace(_, _, _)
Replace(s, old, new) ==
    IF Len(s) < Len(old) \/ old = <<>> THEN s
    ELSE IF StartsWith(s, old)
    THEN new \o Replace(SubSeq(s, Len(old) + 1, Len(s)), old, new)
    ELSE <<Head(s)>> \o Replace(Tail(s), old, new)

\* os.path.abspath(self.root) + '/'
Pwd(r) == r \o Sep

\* os.path.isfile(filepath)
isfile(fs, filepath) == filepath \in fs

\* assert pwd in filepath
InRoot(filepath, pwd) == Contains(filepath, pwd)

\* filepath.replace(pwd, '')
Normalize(filepath, pwd) == Replace(filepath, pwd, <<>>)

NoEvent ==
    [kind |-> "none", src |-> <<>>, isfile |-> FALSE, raised |-> "none",
     classified |-> FALSE, rel |-> <<>>, watched |-> FALSE, built |-> FALSE]

\* ChangeHandler._build_if_watched up to the call of build(): what it
\* decided for one event
build_if_watched(c, r, fs, ev) ==
    LET base == [NoEvent EXCEPT !.kind = ev.kind, !.src = ev.src]
        pwd == Pwd(r)
    IN  IF ~isfile(fs, ev.src) THEN base
        ELSE IF ~InRoot(ev.src, pwd)
        THEN [base EXCEPT !.isfile = TRUE, !.raised = "AssertionError"]
        ELSE LET rel == Normalize(ev.src, pwd)
                 w == is_watched(c, rel)
             IN  [base EXCEPT !.isfile = TRUE, !.classified = TRUE,
                              !.rel = rel, !.watched = w, !.built = w]

Alive == pc \in {"port", "serving"}

\* OnEvent as it would be if the handler handed the build to another
\* thread and returned at once
OnEventDetached(kind) ==
    /\ Alive
    /\ obs.state = "idle"
    /\ obs.next <= Len(evq)
    /\ evq[obs.next].kind = kind
    /\ LET h == build_if_watched(cfg, root, files, evq[obs.next])
           t == Trigger(conf, "build")
       IN  /\ handled' = h
           /\ obs' = [state |-> IF h.raised # "none" THEN "dead" ELSE "idle",
                      next |-> obs.next + 1,
                      command |-> IF h.built THEN t.command ELSE <<>>,
                      exit |-> NoExit]
           /\ procs' = IF h.built THEN procs \cup Spawn(0, t) ELSE procs
    /\ UNCHANGED <<startupVars, root, files, evq, reqs, queryVars, treeVars>>

\* the observer's thread takes the next queued event of one kind and runs
\* the handler; an exception ends the thread, build() blocks it
OnEvent(kind) ==
    /\ Alive
    /\ obs.state = "idle"
    /\ obs.next <= Len(evq)
    /\ evq[obs.next].kind = kind
    /\ LET h == build_if_watched(cfg, root, files, evq[obs.next])
           t == Trigger(conf, "build")
       IN  /\ handled' = h
           /\ obs' = [state |-> IF h.raised # "none" THEN "dead"
                                ELSE IF h.built THEN
                                   (IF t.state = "running" THEN "running"
                                    ELSE "idle")
                                ELSE "idle",
                      next |-> obs.next + 1,
                      command |-> IF h.built THEN t.command ELSE <<>>,
                      exit |-> NoExit]
           /\ procs' = IF h.built THEN procs \cup Spawn(0, t) ELSE procs
    /\ UNCHANGED <<startupVars, root, files, evq, reqs, queryVars, treeVars>>

on_created == OnEvent("created")
on_modified == OnEvent("modified")
on_deleted == OnEvent("deleted")

\* the build started by the handler exits; build() and the handler return
ObserverProcExit(code) ==
    /\ \E p \in procs : p.owner = 0
    /\ procs' = {p \in procs : p.owner # 0}
    /\ obs' = IF obs.state = "running"
              THEN [obs EXCEPT !.state = "idle", !.exit = code]
              ELSE obs
    /\ UNCHANGED <<startupVars, root, files, evq, handled, reqs, queryVars,
                   treeVars>>

\* --------------------------------------------------------------- filesystem
Watching == Alive /\ obs.state # "off" /\ Len(evq) < MaxEvents

Event(kind, p) == [kind |-> kind, src |-> p]

FsCreate(p) ==
    /\ Watching
    /\ p \notin files
    /\ files' = files \cup {p}
    /\ evq' = Append(evq, Event("created", p))
    /\ UNCHANGED <<startupVars, root, obs, handled, reqs, queryVars, treeVars, procs>>

FsModify(p) ==
    /\ Watching
    /\ p \in files
    /\ evq' = Append(evq, Event("modified", p))
    /\ UNCHANGED <<startupVars, root, files, obs, handled, reqs, queryVars, treeVars, procs>>

FsDelete(p) ==
    /\ Watching
    /\ p \in files
    /\ files' = files \ {p}
    /\ evq' = Append(evq, Event("deleted", p))
    /\ UNCHANGED <<startupVars, root, obs, handled, reqs, queryVars, treeVars, procs>>

\* ------------------------------------------------------------ whole program
Root0 == <<"/", "a">>

\* files of the project tree the runs of Spec touch
FsPool == {Pwd(Root0) \o <<"a", ".", "a">>, Pwd(Root0) \o <<"a">>}

ObserverOff == [state |-> "off", next |-> 1, command |-> <<>>, exit |-> NoExit]

Init ==
    /\ conf \in ConfFiles
    /\ args \in ArgSets
    /\ Edits(conf) + Options(args) <= MaxEdits
    /\ cfg = InitialCfg
    /\ pc = "import"
    /\ live = FALSE
    /\ root = Root0
    /\ files = FsPool
    /\ evq = <<>>
    /\ obs = ObserverOff
    /\ handled = NoEvent
    /\ reqs = [i \in 1..MaxRequests |-> FreeThread]
    /\ error = "none"
    /\ query = <<>>
    /\ answer = "none"
    /\ procs = {}
    /\ dirs = {}
    /\ elements = {}

Next ==
    \/ Construct
    \/ WhichFound
    \/ WhichMissing
    \/ parse_options
    \/ StartLiveServer
    \/ StartLiveServerMissing
    \/ StartObserver
    \/ StartServer
    \/ \E i \in 1..MaxRequests, path \in RoutePaths : Request(i, path, "GET")
    \/ \E i \in 1..MaxRequests, code \in ExitCodes : RequestProcExit(i, code)
    \/ on_created
    \/ on_modified
    \/ on_deleted
    \/ \E code \in ExitCodes : ObserverProcExit(code)
    \/ \E p \in FsPool : FsCreate(p)
    \/ \E p \in FsPool : FsModify(p)
    \/ \E p \in FsPool : FsDelete(p)

Spec == Init /\ [][Next]_vars

\* ------------------------------------------------------ classifier harness
\* entries each rule list draws from
RulePool(kind) ==
    CASE kind = "included"     -> {<<".", "a">>, <<"a">>}
      [] kind = "excluded_ext" -> {<<".", "a">>, <<"/", "a">>}
      [] kind = "folder"       -> {<<"a", "/">>, <<>>}
      [] kind = "file"         -> {<<"a", "a">>, <<"a", ".">>}
      [] kind = "regex"        -> {<<".", "a">>, <<"a", "/">>}

RECURSIVE SumOver(_, _)
SumOver(f, S) ==
    IF S = {} THEN 0
    ELSE LET k == CHOOSE x \in S : TRUE IN f[k] + SumOver(f, S \ {k})

\* rule sets with at most MaxRules entries over the five lists
RuleSets ==
    UNION {
        {[included_extensions |-> i, excluded_extensions |-> e,
          excluded_folders |-> fo, excluded_files |-> fi,
          excluded_regex |-> re, watchdog |-> "on", live_server |-> "off"] :
            i \in StrsOfLen(RulePool("included"), l["included"]),
            e \in StrsOfLen(RulePool("excluded_ext"), l["excluded_ext"]),
            fo \in StrsOfLen(RulePool("folder"), l["folder"]),
            fi \in StrsOfLen(RulePool("file"), l["file"]),
            re \in StrsOfLen(RulePool("regex"), l["regex"])} :
        l \in {m \in [RuleKinds -> 0..MaxRules] : SumOver(m, RuleKinds) <= MaxRules}}

\* a relative path as the observer reports it: no empty, "." or ".." part
IsRelFile(p) ==
    \A i \in DOMAIN Split(p, "/") :
        Split(p, "/")[i] \notin {<<>>, <<".">>, <<".", ".">>}

Py(b) == IF b THEN "True" ELSE "False"

ObserverIdle == [ObserverOff EXCEPT !.state = "idle"]

\* a configured Configuration, one path: the path is classified directly
\* and through a pending modify event for the file of that name
InitClassifier ==
    /\ conf = FullConf
    /\ args = BaseArgs
    /\ cfg \in RuleSets
    /\ pc = "serving"
    /\ live = FALSE
    /\ root = Root0
    /\ query \in StrsUpTo(Alphabet, MaxPathLen)
    /\ files = IF IsRelFile(query) THEN {Pwd(root) \o query} ELSE {}
    /\ evq = <<Event("modified", Pwd(root) \o query)>>
    /\ obs = ObserverIdle
    /\ handled = NoEvent
    /\ reqs = [i \in 1..MaxRequests |-> FreeThread]
    /\ error = "none"
    /\ answer = "none"
    /\ procs = {}
    /\ dirs = {}
    /\ elements = {}

\* a direct call config.is_watched(query)
Classify ==
    /\ answer = "none"
    /\ answer' = Py(is_watched(cfg, query))
    /\ UNCHANGED <<startupVars, root, files, evq, obs, handled, reqs, query,
                   treeVars, procs>>

NextClassifier ==
    \/ Classify
    \/ on_modified
    \/ \E code \in ExitCodes : ObserverProcExit(code)

SpecClassifier == InitClassifier /\ [][NextClassifier]_vars

\* some exclusion rule of r matches p
Excluded(r, p) ==
    \/ \E i \in DOMAIN r.excluded_extensions :
           EndsWith(p, r.excluded_extensions[i])
    \/ \E i \in DOMAIN r.excluded_folders : Contains(p, r.excluded_folders[i])
    \/ \E i \in DOMAIN r.excluded_files : Contains(p, r.excluded_files[i])
    \/ \E i \in DOMAIN r.excluded_regex : re_findall(r.excluded_regex[i], p)

\* some inclusion rule of r matches p
Included(r, p) ==
    \E i \in DOMAIN r.included_extensions :
        EndsWith(p, r.included_extensions[i])

\* C1: a path that matches at least one exclusion rule (extension, folder,
\* file or pattern) is never reported watched, whether or not an included
\* extension matches too and whatever the order of the rule entries.
C1_ExclusionDominance ==
    (answer # "none" /\ Excluded(cfg, query)) => answer = "False"

\* a classified path that matches an inclusion and an exclusion rule, one
\* rule list holding two different entries
C1_Witness ==
    /\ answer = "False"
    /\ Included(cfg, query)
    /\ Excluded(cfg, query)
    /\ \E f \in {"included_extensions", "excluded_extensions",
                 "excluded_folders", "excluded_files", "excluded_regex"} :
           Len(cfg[f]) = 2 /\ cfg[f][1] # cfg[f][2]

\* the rules and paths of the documented example
ExampleRules ==
    [included_extensions |-> << <<".", "j", "s">> >>,
     excluded_extensions |-> <<>>,
     excluded_folders |-> DefaultExcludedFolders,
     excluded_files |-> <<>>,
     excluded_regex |-> <<>>]
SrcAppJs == <<"s", "r", "c", "/", "a", "p", "p", ".", "j", "s">>
NodeModulesLibAppJs ==
    DefaultExcludedFolders[1] \o <<"/", "l", "i", "b", "/", "a", "p", "p", ".", "j", "s">>

\* C2: is_watched(p) is exactly "some included extension ends p and no
\* exclusion rule matches p"; with included [".js"] and excluded folder
\* "node_modules", src/app.js is watched and node_modules/lib/app.js is not.
C2_ReferencePredicate ==
    /\ answer # "none" =>
           answer = Py(Included(cfg, query) /\ ~Excluded(cfg, query))
    /\ is_watched(ExampleRules, SrcAppJs)
    /\ ~is_watched(ExampleRules, NodeModulesLibAppJs)

\* a path reported watched although exclusion rules are configured
C2_Witness ==
    /\ answer = "True"
    /\ Len(cfg.included_extensions) = 2
    /\ Len(cfg.excluded_extensions) + Len(cfg.excluded_folders)
         + Len(cfg.excluded_files) + Len(cfg.excluded_regex) > 0

\* C3: with no included extension nothing is watched, whatever the
\* exclusion rules, and no filesystem event starts a build.
C3_EmptyIncludedWatchesNothing ==
    cfg.included_extensions = <<>> =>
        /\ answer # "True"
        /\ ~handled.watched
        /\ ~handled.built
        /\ obs.state # "running"
        /\ obs.exit = NoExit

\* no included extension and no exclusion rule that matches: the path was
\* classified directly and through an event for an existing file
C3_Witness ==
    /\ cfg.included_extensions = <<>>
    /\ answer = "False"
    /\ handled.classified
    /\ ~Excluded(cfg, query)

\* --------------------------------------------------------- handler harness
\* absolute paths of regular files, at most n characters
AbsFiles(n) ==
    {p \in StrsUpTo(Alphabet, n) :
        Len(p) >= 2 /\ p[1] = "/" /\ IsRelFile(Tail(p))}

\* directories a ChangeHandler is rooted at
Roots == {<<"/", "a">>, <<"/", "a", "/", "a">>}

\* the program serving with the base command line parsed, a ChangeHandler
\* rooted at one directory, and one file that changes
InitHandler ==
    /\ conf = FullConf
    /\ args = BaseArgs
    /\ cfg = ParsedCfg(InitialCfg, BaseArgs, DefaultExcludedFolders)
    /\ pc = "serving"
    /\ live = FALSE
    /\ root \in Roots
    /\ query \in AbsFiles(MaxRawLen)
    /\ files \in {{}, {query}}
    /\ evq = <<>>
    /\ obs = ObserverIdle
    /\ handled = NoEvent
    /\ reqs = [i \in 1..MaxRequests |-> FreeThread]
    /\ error = "none"
    /\ answer = "none"
    /\ procs = {}
    /\ dirs = {}
    /\ elements = {}

NextHandler ==
    \/ FsCreate(query)
    \/ FsModify(query)
    \/ FsDelete(query)
    \/ on_created
    \/ on_modified
    \/ on_deleted
    \/ \E code \in ExitCodes : ObserverProcExit(code)

SpecHandler == InitHandler /\ [][NextHandler]_vars

\* src without the leading root and separator
StripRoot(src, r) == SubSeq(src, Len(Pwd(r)) + 1, Len(src))

\* C4: an event for a path that is gone from disk when it is handled (a
\* delete) is still normalized and classified, and starts the build when
\* its relative path is watched.
C4_DeleteTriggersBuild ==
    (/\ handled.kind = "deleted"
     /\ ~handled.isfile
     /\ StartsWith(handled.src, Pwd(root))
     /\ is_watched(cfg, StripRoot(handled.src, root)))
        => (handled.classified /\ handled.built)

\* C5: for the event path root + "/" + r the classifier is handed exactly r,
\* also when r contains the root followed by a separator.
C5_NormalizeInvertsPrefix ==
    (handled.classified /\ StartsWith(handled.src, Pwd(root)))
        => handled.rel = StripRoot(handled.src, root)

\* C6: an event path that does not start with the root is never classified
\* and never starts a build, even when the root occurs further inside it.
C6_OutsideRootRejected ==
    (handled.kind # "none" /\ ~StartsWith(handled.src, Pwd(root)))
        => (~handled.classified /\ ~handled.built)

\* ------------------------------------------------------- dispatcher claims
\* a shell was started for the call thread t made
ShellInvoked(t) == t.spawned

\* C7: with every command key configured, a trigger whose own command is
\* empty starts no shell and returns the action's label, and a trigger
\* whose own command is non-empty runs it, whatever the other commands are.
C7_OwnCommandDecides ==
    DOMAIN conf.commands = Actions =>
        \A i \in 1..MaxRequests :
            reqs[i].state # "free" =>
                IF command(conf, reqs[i].action) = <<>>
                THEN /\ ~ShellInvoked(reqs[i])
                     /\ reqs[i].body = Label(reqs[i].action)
                ELSE ShellInvoked(reqs[i])

C9_WholeCommandExecuted ==
    /\ \A i \in 1..MaxRequests :
           reqs[i].state = "running" =>
               reqs[i].command = command(conf, reqs[i].action)
    /\ obs.state = "running" => obs.command = command(conf, "build")

\* C10: a missing section or key fails at startup, before the live-server
\* helper, the observer or the HTTP server is started, never at a trigger.
C10_MissingConfigFailsAtStartup ==
    /\ error \in {"AssertionError", "KeyError"} =>
           (~live /\ obs.state = "off")
    /\ \A i \in 1..MaxRequests : reqs[i].raised = "none"

\* ------------------------------------------------------------- HTTP harness
\* config files with which main reaches app.run
ServingConfs == {c \in ConfFiles : ConfigAssertsHold(c) /\ HasPort(c)}

\* the program serving after a start with the base command line; requests
\* arrive with either method
InitHttp ==
    /\ conf \in ServingConfs
    /\ args = BaseArgs
    /\ cfg = ParsedCfg(InitialCfg, BaseArgs, DefaultExcludedFolders)
    /\ pc = "serving"
    /\ live = FALSE
    /\ root = Root0
    /\ files = FsPool
    /\ evq = <<>>
    /\ obs = ObserverIdle
    /\ handled = NoEvent
    /\ reqs = [i \in 1..MaxRequests |-> FreeThread]
    /\ error = "none"
    /\ query = <<>>
    /\ answer = "none"
    /\ procs = {}
    /\ dirs = {}
    /\ elements = {}

NextHttp ==
    \/ \E i \in 1..MaxRequests, path \in RoutePaths, method \in RouteMethods :
           Request(i, path, method)
    \/ \E i \in 1..MaxRequests, code \in ExitCodes : RequestProcExit(i, code)

SpecHttp == InitHttp /\ [][NextHttp]_vars

\* C11: a GET or POST request to /build, /test, /run, /start or /serve
\* calls the dispatch function of that action and no other and is answered
\* with that action's status string.
C11_EndpointAnswersOwnLabel ==
    \A i \in 1..MaxRequests :
        reqs[i].state # "free" =>
            /\ reqs[i].method \in {"GET", "POST"}
            /\ reqs[i].action = Endpoint(reqs[i].path)
            /\ \A p \in procs : p.owner = i => p.action = Endpoint(reqs[i].path)
            /\ reqs[i].state = "done" =>
                   reqs[i].body = Label(Endpoint(reqs[i].path))

\* C12: a trigger is synchronous for its caller. A process in flight has its
\* caller (request thread or observer thread) blocked with no response
\* produced, and a caller that got its label back after starting a process
\* holds that process's exit status: the process has exited.
C12_TriggerSynchronous ==
    /\ \A p \in procs :
           IF p.owner = 0
           THEN obs.state = "running"
           ELSE reqs[p.owner].state = "running" /\ reqs[p.owner].body = ""
    /\ \A i \in 1..MaxRequests :
           (reqs[i].state = "done" /\ reqs[i].spawned) =>
               /\ reqs[i].exit \in ExitCodes
               /\ \A p \in procs : p.owner # i

\* one request answered after its process exited while another request's
\* process is still in flight and that request is still unanswered
C12_Witness ==
    \E i, j \in 1..MaxRequests :
        /\ reqs[i].state = "done" /\ reqs[i].spawned
        /\ reqs[i].body = Label(reqs[i].action)
        /\ reqs[j].state = "running"
        /\ \E p \in procs : p.owner = j

\* config files whose build and test commands are each empty or not
BuildTestConfs ==
    {[FullConf EXCEPT !.commands = [@ EXCEPT !["build"] = b, !["test"] = t]] :
        b \in {<<>>, FullCmd}, t \in {<<>>, FullCmd}}

InitHttpFair == InitHttp /\ conf \in BuildTestConfs

\* every external command terminates: the exit of a process in flight is
\* not postponed forever
SpecHttpFair ==
    /\ InitHttpFair
    /\ [][NextHttp]_vars
    /\ \A i \in 1..MaxRequests : WF_vars(\E code \in ExitCodes : RequestProcExit(i, code))

Taken(i, path) == reqs[i].state # "free" /\ reqs[i].path = path

Answered(i, body) == reqs[i].state = "done" /\ reqs[i].body = body

\* C13: when /test and /build are both requested and their commands
\* terminate, both requests complete, /test answered "Testing" and /build
\* answered "Building", whatever the other process's exit status.
C13_ConcurrentTestBuild ==
    \A i, j \in 1..MaxRequests :
        (Taken(i, "/test") /\ Taken(j, "/build"))
            ~> (Answered(i, "Testing") /\ Answered(j, "Building"))

\* /test has been answered "Testing" after its command failed while the
\* build of a concurrent /build is still in flight
C13_Witness ==
    \E i, j \in 1..MaxRequests :
        /\ Taken(i, "/test") /\ Answered(i, "Testing") /\ reqs[i].exit = 1
        /\ Taken(j, "/build") /\ reqs[j].state = "running"
        /\ \E p \in procs : p.owner = j /\ p.action = "build"

\* a build started by the event handler is in flight
ObserverBuildInFlight == \E p \in procs : p.owner = 0

C15_HandlerFailuresContained ==
    /\ handled.raised = "none"
    /\ obs.state # "dead"
    /\ pc = "serving"

\* the command of action a is started when a is triggered
Starts(c, a) == HasCommand(c, GuardKey(a)) /\ command(c, GuardKey(a)) # <<>>

\* C16: no action is guarded or deduplicated. A request for an action whose
\* command is started always starts one more process, whatever processes are
\* in flight, and leaves every process in flight running.
C16_NoDeduplication ==
    [][\A i \in 1..MaxRequests :
          (/\ reqs[i].state = "free"
           /\ reqs'[i].state # "free"
           /\ Starts(conf, reqs'[i].action))
              => /\ reqs'[i].state = "running"
                 /\ Proc(i, reqs'[i]) \notin procs
                 /\ procs' = procs \cup {Proc(i, reqs'[i])}]_vars

\* two build processes in flight together: one started by a file event, one
\* by an HTTP request
C16_Witness ==
    /\ \E p \in procs : p.owner = 0 /\ p.action = "build"
    /\ \E p \in procs : p.owner # 0 /\ p.action = "build"

\* two processes of one action, both started over HTTP, in flight together
TwoInFlight(a) ==
    \E p, q \in procs :
        p.owner # 0 /\ q.owner # 0 /\ p.owner # q.owner /\ p.action = a /\ q.action = a

C16_TwoBuildRequests == TwoInFlight("build")

C16_TwoServes == TwoInFlight("serve")

\* the observer's thread handles the event at the head of the queue
HandlesEvent == obs.state = "idle" /\ obs'.next = obs.next + 1

\* C17: a file event starts only build, and only for a watched path. For
\* every handled create, modify or delete event: if the path relative to the
\* root is not watched no process is started; if it is watched build is
\* called once, starting exactly one build process when a build command is
\* configured; no process of another action is ever started by an event.
C17_EventStartsBuildOnce ==
    [][HandlesEvent =>
          LET ev == evq[obs.next]
              w == is_watched(cfg, StripRoot(ev.src, root))
              build0 == [owner |-> 0, action |-> "build",
                         command |-> command(conf, "build")]
          IN  /\ \A p \in procs' \ procs : p = build0
              /\ ~w => (procs' = procs /\ ~handled'.built)
              /\ w => /\ handled'.built
                      /\ Starts(conf, "build") =>
                             (build0 \notin procs /\ procs' = procs \cup {build0})]_vars

\* the filesystem listener runs or the HTTP server accepts requests
ProducerStarted ==
    \/ obs.state # "off"
    \/ pc = "serving"
    \/ \E i \in 1..MaxRequests : reqs[i].state # "free"

\* C18: every write to the configuration precedes the start of both
\* producers. No step changes the configuration once the listener or the
\* HTTP server is started, and when either is started the configuration is
\* the complete result of parse_options on the command line.
C18_ConfigWrittenBeforeProducers ==
    [][/\ cfg' # cfg => (~ProducerStarted /\ ~ProducerStarted')
       /\ ProducerStarted' =>
              \E folders \in FolderOrders(args) :
                  cfg' = ParsedCfg(InitialCfg, args, folders)]_vars

\* both producers run on a configuration that a command-line option changed
C18_Witness ==
    /\ obs.state = "idle"
    /\ pc = "serving"
    /\ cfg.watchdog = "on"
    /\ cfg # ParsedCfg(InitialCfg, BaseArgs, DefaultExcludedFolders)

\* main is past parse_options
StartupDone == pc \in {"live", "watch", "port", "serving"}

\* C19: after startup the rules and the commands never change. No step
\* taken once parse_options has returned (starting the producers, a file
\* event, its handling, a request, a process exit) changes a rule list or a
\* command, and is_watched answers the same for every path before and after.
C19_RulesAndCommandsFrozen ==
    [][StartupDone =>
          /\ cfg' = cfg
          /\ conf' = conf
          /\ \A p \in FsPool :
                 is_watched(cfg', StripRoot(p, root))
                     = is_watched(cfg, StripRoot(p, root))]_vars

\* a file event has been classified and a request has run its command to
\* the end, and the rules still classify the event's path as they did
C19_Witness ==
    /\ handled.classified
    /\ handled.watched = is_watched(cfg, handled.rel)
    /\ \E i \in 1..MaxRequests :
           reqs[i].state = "done" /\ reqs[i].spawned /\ reqs[i].exit \in ExitCodes
    /\ \E folders \in FolderOrders(args) : cfg = ParsedCfg(InitialCfg, args, folders)

\* ------------------------------------------------------- enumerator harness
\* names of the entries of a project tree: a plain name, a name with the
\* included extension, a hidden name with the included extension
TreeNames == {<<"n">>, <<"a", ".", "a">>, <<".", "a">>}

\* entries one and two levels below the root
TreePaths == TreeNames \cup {d \o Sep \o n : d \in TreeNames, n \in TreeNames}

Parent(p) == IF Contains(p, Sep) THEN SubSeq(p, 1, IndexOf(p, "/", 1) - 1) ELSE <<>>

\* project trees of at most MaxTreeEntries entries: the entries, and which
\* of them are directories (every entry that has a child is one)
Trees ==
    UNION {{[entries |-> e, folders |-> d] :
               d \in {f \in SUBSET e :
                         \A p \in e : Parent(p) # <<>> => Parent(p) \in f}} :
           e \in {x \in SUBSET TreePaths :
                     /\ Cardinality(x) <= MaxTreeEntries
                     /\ \A p \in x : Parent(p) # <<>> => Parent(p) \in x}}

\* command lines of the enumerator runs: the base one, one that excludes
\* the folder n, one that switches the watchdog off
EnumArgs ==
    {BaseArgs,
     [BaseArgs EXCEPT !.exclusions = <<"n">>],
     [BaseArgs EXCEPT !.watchdog = FALSE]}

\* main about to start the observer in a project tree
InitEnumerate ==
    /\ conf \in {c \in ConfFiles : ConfigAssertsHold(c) /\ Edits(c) <= MaxEdits}
    /\ args \in EnumArgs
    /\ \E folders \in FolderOrders(args) :
           cfg = ParsedCfg(InitialCfg, args, folders)
    /\ pc = "watch"
    /\ live = FALSE
    /\ root = Root0
    /\ \E t \in Trees :
           /\ files = {Pwd(root) \o p : p \in t.entries \ t.folders}
           /\ dirs = {Pwd(root) \o p : p \in t.folders}
    /\ evq = <<>>
    /\ obs = ObserverOff
    /\ handled = NoEvent
    /\ reqs = [i \in 1..MaxRequests |-> FreeThread]
    /\ error = "none"
    /\ query = <<>>
    /\ answer = "none"
    /\ procs = {}
    /\ elements = {}

NextEnumerate ==
    \/ StartObserver
    \/ StartServer

SpecEnumerate == InitEnumerate /\ [][NextEnumerate]_vars

\* get_watched has been called
Enumerated == pc # "watch" /\ cfg.watchdog = "on"

\* the regular files under the root, relative to it
RegularFiles == {RelTo(p, root) : p \in files}

\* C20: get_watched returns exactly the regular files under the root that
\* is_watched accepts: no element is a directory, every element is watched,
\* and no watched regular file is missing (in particular none below a
\* skipped top-level folder).
C20_WatchSetIsWatchedFiles ==
    Enumerated =>
        /\ \A e \in elements : e \in RegularFiles
        /\ \A e \in elements : is_watched(cfg, e)
        /\ \A f \in RegularFiles : is_watched(cfg, f) => f \in elements

====
